---- MODULE Spec2Model ----
(***************************************************************************)
(* Model of the PJLink client of src/src/index.ts: class Projector, its    *)
(* private command exchange _sendCmd / _killSocket and the public          *)
(* operations built on it.  One logical command is followed from the call  *)
(* of a public operation to the settlement of the promise handed back.     *)
(*                                                                         *)
(* Text is modelled as TLA+ strings; Buffer.slice / String.slice are the   *)
(* operator Slice.  Promise callbacks (then / catch) run in the microtask  *)
(* queue right after the event that settles the promise, so each event     *)
(* handler together with the callbacks it triggers is one action.          *)
(***************************************************************************)
EXTENDS Integers, Sequences, FiniteSets, TLC

\* ------------------------------------------------------------------ bounds
\* Data chunks the device may deliver on one Connection.
MaxChunks == 2
\* Calls of _killSocket, over the whole logical command, on a socket that an
\* earlier _killSocket call is already closing.
MaxExtraKills == 1

\* ------------------------------------------------------- program constants
maxRetries == 5
password == "panasonic"
protocolVersion2Commands == {"SVOL", "IRES", "FREZ"}

CR == "\r"
Undefined == "<undefined>"
NoBuf == "<none>"

\* ------------------------------------------------------------ text helpers
Min(a, b) == IF a < b THEN a ELSE b
Max(a, b) == IF a > b THEN a ELSE b

\* Index normalisation of String.prototype.slice / Buffer.prototype.slice.
SliceIndex(i, n) == IF i < 0 THEN Max(n + i, 0) ELSE Min(i, n)

\* s.slice(a, b)
Slice(s, a, b) ==
    LET n == Len(s)
        x == SliceIndex(a, n)
        y == SliceIndex(b, n)
    IN  IF x >= y THEN "" ELSE SubSeq(s, x + 1, y)

\* s.slice(a)
SliceFrom(s, a) == Slice(s, a, Len(s))

\* s.indexOf(c) for a one-character c; -1 when absent.
IndexOf(s, c) ==
    LET hits == {i \in 1..Len(s) : SubSeq(s, i, i) = c}
    IN  IF hits = {} THEN -1
        ELSE (CHOOSE i \in hits : \A j \in hits : i <= j) - 1

Digits == <<"0", "1", "2", "3", "4", "5", "6", "7", "8", "9">>
IsDigit(c) == \E d \in 1..10 : Digits[d] = c
DigitValue(c) == (CHOOSE d \in 1..10 : Digits[d] = c) - 1

\* Length of the leading run of decimal digits of s.
RECURSIVE DigitRun(_)
DigitRun(s) ==
    IF Len(s) = 0 \/ ~IsDigit(SubSeq(s, 1, 1)) THEN 0
    ELSE 1 + DigitRun(SliceFrom(s, 1))

RECURSIVE DigitsValue(_)
DigitsValue(s) ==
    IF Len(s) = 0 THEN 0
    ELSE 10 * DigitsValue(Slice(s, 0, -1)) + DigitValue(SliceFrom(s, Len(s) - 1))

\* parseInt(s): the value of the leading digits, or NaN (no sign, no blanks
\* occur in the modelled payloads).
NaN == -1
ParseInt(s) == IF DigitRun(s) = 0 THEN NaN ELSE DigitsValue(Slice(s, 0, DigitRun(s)))

\* n.toString() for a number.
NumberToString(n) == IF n = NaN THEN "NaN" ELSE ToString(n)

\* s.padStart(len, "0")
RECURSIVE PadStart(_, _)
PadStart(s, len) == IF Len(s) >= len THEN s ELSE PadStart("0" \o s, len)

\* crypto.createHash('md5').update(s).digest('hex'), tabulated for the
\* inputs the model produces.
Md5Hex(s) ==
    CASE s = "12345678panasonic" -> "1638f4e610e422c574663e42645b83f6"
      [] s = "panasonic" -> "5dac1b5914537a1bcd5ac55b181e8512"
      [] OTHER -> "md5<" \o s \o ">"

\* --------------------------------------------------------------- the state
VARIABLES
    call,       \* the public operation invoked and the command it issues
    att,        \* the Attempts (_sendCmd activations that opened a socket)
    timers,     \* pending setTimeout callbacks, in creation order
    result,     \* the promise of the logical command (_sendCmd, retry 0)
    caller,     \* the promise the public operation returned
    console,    \* messages written with console.error
    opened,     \* Connections opened so far for the logical command
    extraKills, \* _killSocket calls on a socket already being closed
    fired,      \* 0 unless the last step ran a timer callback; 1 and 2 in
                \* turn over timer callbacks that run back to back
    session     \* the identity fields of the Projector and the progress of
                \* the probe its constructor runs

vars == <<call, att, timers, result, caller, console, opened, extraKills, fired,
          session>>

NoCall == [op |-> "none", cmd |-> "", query |-> FALSE, n |-> 0, label |-> ""]
Pending == [state |-> "pending", type |-> "none", value |-> Undefined]
Resolved(type, v) == [state |-> "resolved", type |-> type, value |-> v]
Rejected(v) == [state |-> "rejected", type |-> "string", value |-> v]

\* The argument as _sendCmd renders it (argString, arg.toString()).
ArgString(c) == IF c.query THEN "?" ELSE NumberToString(c.n)

\* cmd.toUpperCase()
LowerCase == "abcdefghijklmnopqrstuvwxyz"
UpperCase == "ABCDEFGHIJKLMNOPQRSTUVWXYZ"
UpperChar(c) ==
    IF \E i \in 1..26 : SubSeq(LowerCase, i, i) = c
    THEN LET i == CHOOSE i \in 1..26 : SubSeq(LowerCase, i, i) = c
         IN  SubSeq(UpperCase, i, i)
    ELSE c
LowerChar(c) ==
    IF \E i \in 1..26 : SubSeq(UpperCase, i, i) = c
    THEN LET i == CHOOSE i \in 1..26 : SubSeq(UpperCase, i, i) = c
         IN  SubSeq(LowerCase, i, i)
    ELSE c
RECURSIVE ToLowerCase(_)
ToLowerCase(s) ==
    IF Len(s) = 0 THEN "" ELSE LowerChar(SubSeq(s, 1, 1)) \o ToLowerCase(SliceFrom(s, 1))
RECURSIVE ToUpperCase(_)
ToUpperCase(s) ==
    IF Len(s) = 0 THEN "" ELSE UpperChar(SubSeq(s, 1, 1)) \o ToUpperCase(SliceFrom(s, 1))

\* Variant of ProtocolVersion: every command is sent with the first tag.
ProtocolVersionClass1Only(cmd) == "%1"

\* PROTOCOL_VERSION of a command.
ProtocolVersion(cmd) ==
    IF ToUpperCase(cmd) \in protocolVersion2Commands THEN "%2" ELSE "%1"

\* The two request lines of the data handler.
AuthLine(buf, pv, c) ==
    Md5Hex(Slice(buf, 9, -1) \o password) \o pv \o c.cmd \o " " \o ArgString(c) \o CR
PlainLine(pv, c) == pv \o c.cmd \o " " \o ArgString(c) \o CR

\* ------------------------------------------------------------ the Attempts
NewAttempt(cmd, retry, err, parent) ==
    [pv |-> ProtocolVersion(cmd),
     retry |-> retry, err |-> err, parent |-> parent, p |-> "pending",
     sock |-> "open", ended |-> FALSE, destroyed |-> 0, listeners |-> TRUE,
     failed |-> FALSE, ending |-> FALSE, rx |-> 0, sent |-> <<>>, kills |-> <<>>]

HasTimer(ts, a, k) == \E i \in 1..Len(ts) : ts[i].a = a /\ ts[i].k = k

\* A _killSocket call whose promise is settled keeps nothing its timer reads
\* but the flag `ended`.
SettledKill == [path |-> "settled", buf |-> NoBuf, ended |-> TRUE, on |-> FALSE, p |-> "settled"]

\* What is left of an Attempt once its socket is closed: its promise (which its
\* successors' callbacks settle), the flag `ending` its timer reads (and, until
\* that timer has run, whether the socket failed), and its _killSocket calls
\* that are not settled yet.  The rest of its closure is
\* read by no callback that can still run, and is forgotten.
RECURSIVE FinishedKills(_, _, _, _)
FinishedKills(kills, ts, a, k) ==
    IF k = 0 THEN <<>>
    ELSE Append(FinishedKills(kills, ts, a, k - 1),
                IF kills[k].ended \/ ~HasTimer(ts, a, k)
                THEN SettledKill ELSE [kills[k] EXCEPT !.on = FALSE])

Finished(r, ts, a) ==
    [pv |-> r.pv,
     retry |-> r.retry, err |-> Undefined, parent |-> r.parent, p |-> r.p,
     sock |-> "closed", ended |-> TRUE,
     destroyed |-> IF \E k \in 1..Len(r.kills) : HasTimer(ts, a, k)
                   THEN r.destroyed ELSE 0,
     listeners |-> FALSE,
     failed |-> IF HasTimer(ts, a, 0) THEN r.failed ELSE FALSE,
     ending |-> IF HasTimer(ts, a, 0) THEN r.ending ELSE TRUE,
     rx |-> 0, sent |-> <<>>,
     kills |-> IF \E k \in 1..Len(r.kills) : HasTimer(ts, a, k)
               THEN FinishedKills(r.kills, ts, a, Len(r.kills)) ELSE <<>>]

RECURSIVE CollectFrom(_, _, _)
CollectFrom(as, ts, a) ==
    IF a = 0 THEN <<>>
    ELSE Append(CollectFrom(as, ts, a - 1),
                IF as[a].sock = "closed" THEN Finished(as[a], ts, a) ELSE as[a])

\* A pending timer whose callback can no longer do anything: the per-Attempt
\* timer of a closed Attempt with `ending` set, the _killSocket timer of a
\* call that saw the socket close.
Idle(as, t) ==
    /\ as[t.a].sock = "closed"
    /\ IF t.k = 0 THEN as[t.a].ending ELSE as[t.a].kills[t.k].ended

RECURSIVE DropIdle(_, _, _)
DropIdle(as, ts, i) ==
    IF i = 0 THEN <<>>
    ELSE IF Idle(as, ts[i]) THEN DropIdle(as, ts, i - 1)
    ELSE Append(DropIdle(as, ts, i - 1), ts[i])

\* Closed Attempts are reduced to what can still be read, and their idle
\* timers are let fire.
Collect(st) ==
    LET ts == DropIdle(st.att, st.timers, Len(st.timers))
    IN  [st EXCEPT !.att = CollectFrom(st.att, ts, Len(st.att)),
                   !.timers = ts]

\* The initial Attempt of the latest _sendCmd call made from outside _sendCmd
\* (0: none).
Root(as) ==
    LET roots == {a \in 1..Len(as) : as[a].parent = 0}
    IN  IF roots = {} THEN 0 ELSE CHOOSE a \in roots : \A b \in roots : b <= a

\* The Attempts before the latest initial Attempt belong to an earlier logical
\* command; they are done when their sockets are closed, no timer of theirs is
\* left and no later Attempt was started by them.
Stale(as, ts) ==
    LET root == Root(as)
    IN  /\ \A a \in 1..(root - 1) : as[a].sock = "closed"
        /\ \A i \in 1..Len(ts) : ts[i].a >= root
        /\ \A a \in root..Len(as) : as[a].parent = 0 \/ as[a].parent >= root

\* The Attempts from index `from` on, renumbered from 1.
RECURSIVE Renumbered(_, _, _)
Renumbered(as, from, a) ==
    IF a < from THEN <<>>
    ELSE Append(Renumbered(as, from, a - 1),
                [as[a] EXCEPT !.parent = IF @ = 0 THEN 0 ELSE @ - (from - 1)])

RECURSIVE RenumberedTimers(_, _, _)
RenumberedTimers(ts, from, i) ==
    IF i = 0 THEN <<>>
    ELSE Append(RenumberedTimers(ts, from, i - 1),
                [ts[i] EXCEPT !.a = @ - (from - 1)])

\* When a further logical command has been started, the Attempts of the
\* earlier one that are done are forgotten.
Forget(st) ==
    IF Root(st.att) <= 1 THEN st
    ELSE LET c == Collect(st)
         IN  IF Stale(c.att, c.timers)
             THEN [c EXCEPT !.att = Renumbered(@, Root(@), Len(@)),
                            !.timers = RenumberedTimers(@, Root(c.att), Len(@))]
             ELSE st

Cur ==
    Collect([call |-> call, att |-> att, timers |-> timers, result |-> result,
             caller |-> caller, console |-> console, opened |-> opened,
             extraKills |-> extraKills, fired |-> 0, session |-> session])

Commit(st) ==
    LET end == Forget(st)
    IN  /\ call' = end.call
        /\ att' = end.att
        /\ timers' = end.timers
        /\ result' = end.result
        /\ caller' = end.caller
        /\ console' = end.console
        /\ opened' = end.opened
        /\ extraKills' = end.extraKills
        /\ fired' = end.fired
        /\ session' = end.session

\* ---------------------------------------------------- the public operations
\* What the promise a public operation returned does when the promise of its
\* _sendCmd call settles with v.
\* .catch(console.error) of power, setVolume, setVideoMute, setAudioMute,
\* setVideoAndAudioMute and setFreeze: the promise returned is that of catch.
CatchConsoleError(st, v) ==
    IF v.state = "rejected"
    THEN [st EXCEPT !.console = @ \cup {v.value},
                    !.caller = Resolved("undefined", Undefined)]
    ELSE [st EXCEPT !.caller = v]

\* input and setInputByDirectNumber.
InputSettle(st, v, message) ==
    IF v.state = "resolved" THEN [st EXCEPT !.caller = Resolved("undefined", Undefined)]
    ELSE IF v.value = "Projector returned error: ERR2" \o CR
    THEN [st EXCEPT !.caller = Rejected(message)]
    ELSE [st EXCEPT !.caller = v]

GetPowerSettle(st, v) ==
    IF v.state = "rejected" THEN [st EXCEPT !.caller = v]
    ELSE LET val == Slice(v.value, 0, -1)
         IN  CASE val = "0" -> [st EXCEPT !.caller = Resolved("string", "off")]
               [] val = "1" -> [st EXCEPT !.caller = Resolved("string", "on")]
               [] val = "2" -> [st EXCEPT !.caller = Resolved("string", "cooling")]
               [] val = "3" -> [st EXCEPT !.caller = Resolved("string", "warm-up")]
               [] OTHER -> [st EXCEPT !.caller = Rejected(val)]

GetLampSettle(st, v) ==
    IF v.state = "rejected" THEN [st EXCEPT !.caller = v]
    ELSE LET val == v.value
             length == IndexOf(val, " ")
         IN  IF length = -1 THEN [st EXCEPT !.caller = Rejected(val)]
             ELSE LET hours == ParseInt(Slice(val, 0, length))
                  IN  IF PadStart(NumberToString(hours), length) = Slice(val, 0, length)
                      THEN [st EXCEPT !.caller = Resolved("number", NumberToString(hours))]
                      ELSE [st EXCEPT !.caller = Rejected(val)]

GetInputSettle(st, v) ==
    IF v.state = "rejected" THEN [st EXCEPT !.caller = v]
    ELSE LET rtn == v.value
             kind == Slice(rtn, 0, 1)
             name == CASE kind = "1" -> "RGB "
                       [] kind = "2" -> "Video "
                       [] kind = "3" -> "Digital "
                       [] kind = "4" -> "Storage "
                       [] kind = "5" -> "Network "
                       [] OTHER -> ""
         IN  IF name = "" THEN [st EXCEPT !.caller = Resolved("string", "Unknown Input: " \o rtn)]
             ELSE [st EXCEPT !.caller = Resolved("string", name \o Slice(rtn, 1, 2))]

GetVideoAndAudioMuteSettle(st, v) ==
    IF v.state = "rejected" THEN [st EXCEPT !.caller = v]
    ELSE LET val == Slice(v.value, 0, -1)
         IN  CASE val = "11" -> [st EXCEPT !.caller = Resolved("object", "videoMuted audio")]
               [] val = "21" -> [st EXCEPT !.caller = Resolved("object", "video audioMuted")]
               [] val = "31" -> [st EXCEPT !.caller = Resolved("object", "videoMuted audioMuted")]
               [] val = "30" -> [st EXCEPT !.caller = Resolved("object", "video audio")]
               [] OTHER -> [st EXCEPT !.caller = Rejected(val)]

GetFreezeSettle(st, v) ==
    IF v.state = "rejected" THEN [st EXCEPT !.caller = v]
    ELSE [st EXCEPT !.caller =
             Resolved("boolean", IF v.value = "1" THEN "true" ELSE "false")]

\* Getters that hand the payload on (getInputResolution; getAvailableInputList
\* up to its trim / split of the payload).
PayloadSettle(st, v) == [st EXCEPT !.caller = v]

\* ---- the constructor's identity probe
\* The initial value of _name, _manufacturer, _model, _info and _class.
Null == "<null>"

\* The queries of the constructor, in the order of its promise chain.
ProbeCommands == <<"NAME", "INF1", "INF2", "INFO", "CLSS">>

\* A Projector before its constructor ran: `issued` lists the probe queries
\* started, `cb` tells whether a callback was passed, `ready` counts its calls.
NoSession ==
    [issued |-> <<>>, cb |-> FALSE, ready |-> 0, initialized |-> FALSE,
     name |-> Null, manufacturer |-> Null, model |-> Null, info |-> Null, class |-> Null]

\* JSON.stringify(err) for the value a promise was rejected with.
RECURSIVE JsonEscape(_)
JsonEscape(s) ==
    IF Len(s) = 0 THEN ""
    ELSE LET c == SubSeq(s, 1, 1)
         IN  (CASE c = CR -> "\\r"
                [] c = "\"" -> "\\\""
                [] c = "\\" -> "\\\\"
                [] OTHER -> c) \o JsonEscape(SliceFrom(s, 1))
JsonStringify(v) == IF v = Undefined THEN "undefined" ELSE "\"" \o JsonEscape(v) \o "\""

\* The then-callback of the k-th probe query stores its result.
SetField(s, k, v) ==
    CASE k = 1 -> [s EXCEPT !.name = v]
      [] k = 2 -> [s EXCEPT !.manufacturer = v]
      [] k = 3 -> [s EXCEPT !.model = v]
      [] k = 4 -> [s EXCEPT !.info = v]
      [] OTHER -> [s EXCEPT !.class = v]

\* this._sendCmd(cmd, '?') of the constructor: retry is 0, so a socket is
\* created for the initial Attempt of a new logical command.
ProbeQuery(st, cmd) ==
    LET id == Len(st.att) + 1
    IN  [st EXCEPT !.call = [op |-> "constructor", cmd |-> cmd, query |-> TRUE,
                             n |-> 0, label |-> ""],
                   !.result = Pending,
                   !.session.issued = Append(@, cmd),
                   !.att = Append(@, NewAttempt(cmd, 0, Undefined, 0)),
                   !.timers = Append(@, [a |-> id, k |-> 0, delay |-> 2000]),
                   !.opened = 1]

\* Variant of ProbeSettle: a rejected probe query is logged and the chain
\* goes on with the next query.
ProbeSettleGoesOn(st, v) ==
    LET k == Len(st.session.issued)
        set == IF v.state = "rejected"
               THEN [st EXCEPT !.console = @ \cup {"Projector initialization error:"
                                                      \o JsonStringify(v.value)}]
               ELSE [st EXCEPT !.session = SetField(@, k, v.value)]
    IN  IF k < Len(ProbeCommands) THEN ProbeQuery(set, ProbeCommands[k + 1])
        ELSE [set EXCEPT !.session.initialized = TRUE,
                         !.session.ready = IF st.session.cb THEN @ + 1 ELSE @]

\* The promise chain of the constructor, when the promise of the k-th probe
\* query settles with v.
ProbeSettle(st, v) ==
    LET k == Len(st.session.issued)
    IN  IF v.state = "rejected"
        THEN [st EXCEPT !.console = @ \cup {"Projector initialization error:"
                                               \o JsonStringify(v.value)}]
        ELSE LET set == [st EXCEPT !.session = SetField(@, k, v.value)]
             IN  IF k < Len(ProbeCommands) THEN ProbeQuery(set, ProbeCommands[k + 1])
                 ELSE [set EXCEPT !.session.initialized = TRUE,
                                  !.session.ready = IF st.session.cb THEN @ + 1 ELSE @]

ApiSettle(st, v) ==
    LET op == st.call.op
    IN  CASE op \in {"power", "setVolume", "setVideoMute", "setAudioMute",
                     "setVideoAndAudioMute", "setFreeze"} -> CatchConsoleError(st, v)
          [] op = "input" ->
                InputSettle(st, v, "Input " \o st.call.label \o " does not exist")
          [] op = "setInputByDirectNumber" ->
                InputSettle(st, v, "Input \"" \o st.call.label \o "\" does not exist")
          [] op = "getPower" -> GetPowerSettle(st, v)
          [] op = "getLamp" -> GetLampSettle(st, v)
          [] op = "getInput" -> GetInputSettle(st, v)
          [] op = "getVideoAndAudioMute" -> GetVideoAndAudioMuteSettle(st, v)
          [] op = "getFreeze" -> GetFreezeSettle(st, v)
          [] op = "constructor" -> ProbeSettle(st, v)
          [] OTHER -> PayloadSettle(st, v)

\* The promises a settlement of Attempt a reaches: its own and, through
\* .then(rtn => res(rtn)).catch(rej), those of the Attempts that called it, up
\* to the first one already settled (0: the caller of _sendCmd).
RECURSIVE Chain(_, _)
Chain(as, a) ==
    IF a = 0 THEN {0}
    ELSE IF as[a].p # "pending" THEN {}
    ELSE {a} \cup Chain(as, as[a].parent)

\* The Attempts with the promises in ch settled as s.
RECURSIVE SettleAll(_, _, _, _)
SettleAll(as, ch, s, n) ==
    IF n = 0 THEN <<>>
    ELSE Append(SettleAll(as, ch, s, n - 1),
                IF n \in ch THEN [as[n] EXCEPT !.p = s] ELSE as[n])

\* res / rej of the promise of Attempt a with v.  A settled promise ignores
\* later calls.
Settle(st, a, v) ==
    LET ch == Chain(st.att, a)
        done == [st EXCEPT !.att = SettleAll(@, ch, v.state, Len(@))]
    IN  IF 0 \in ch THEN ApiSettle([done EXCEPT !.result = v], v) ELSE done

\* Variant of SendCmd: the retry check lets one more Attempt through
\* (retry > maxRetries + 1).
SendCmdOneMore(st, retry, err, parent) ==
    IF retry > maxRetries + 1 THEN Settle(st, parent, Rejected(err))
    ELSE LET id == Len(st.att) + 1
         IN  [st EXCEPT !.att = Append(@, NewAttempt(st.call.cmd, retry, err, parent)),
                        !.timers = Append(@, [a |-> id, k |-> 0, delay |-> 2000]),
                        !.opened = @ + 1]

\* Variant of SendCmd: on exhaustion the promise is rejected with the error
\* the failed Attempt was started with.
SendCmdStaleError(st, retry, err, parent) ==
    IF retry > maxRetries THEN Settle(st, parent, Rejected(st.att[parent].err))
    ELSE LET id == Len(st.att) + 1
         IN  [st EXCEPT !.att = Append(@, NewAttempt(st.call.cmd, retry, err, parent)),
                        !.timers = Append(@, [a |-> id, k |-> 0, delay |-> 2000]),
                        !.opened = @ + 1]

\* Variant of SendCmd: the retry check is off by one (retry >= maxRetries).
SendCmdOffByOne(st, retry, err, parent) ==
    IF retry >= maxRetries THEN Settle(st, parent, Rejected(err))
    ELSE LET id == Len(st.att) + 1
         IN  [st EXCEPT !.att = Append(@, NewAttempt(st.call.cmd, retry, err, parent)),
                        !.timers = Append(@, [a |-> id, k |-> 0, delay |-> 2000]),
                        !.opened = @ + 1]

\* _sendCmd(cmd, arg, retry, err), called by Attempt parent (0: by a public
\* operation).
SendCmd(st, retry, err, parent) ==
    IF retry > maxRetries THEN Settle(st, parent, Rejected(err))
    ELSE LET id == Len(st.att) + 1
         IN  [st EXCEPT !.att = Append(@, NewAttempt(st.call.cmd, retry, err, parent)),
                        !.timers = Append(@, [a |-> id, k |-> 0, delay |-> 2000]),
                        !.opened = @ + 1]

\* _killSocket(socket) called by Attempt a: on the timeout path, or on the
\* data path for the chunk buf.
KillSocket(st, a, path, buf) ==
    LET k == Len(st.att[a].kills) + 1
    IN  [st EXCEPT !.att[a].ended = TRUE,
                   !.att[a].kills =
                       Append(@, [path |-> path, buf |-> buf, ended |-> FALSE, on |-> TRUE,
                                  p |-> "pending"]),
                   !.timers = Append(@, [a |-> a, k |-> k, delay |-> 200])]

\* Variant of KillResolved: the version tag of the response is not compared.
KillResolvedAnyTag(st, a, k) ==
    LET r == st.att[a]
        c == st.call
        buf == r.kills[k].buf
    IN  IF r.kills[k].path = "timer"
        THEN SendCmd(st, r.retry + 1, "Failed command to projector", a)
        ELSE IF Slice(buf, 2, 7) = c.cmd \o "="
        THEN IF ~c.query
             THEN IF Slice(buf, 7, 9) = "OK"
                  THEN Settle(st, a, Resolved("undefined", Undefined))
                  ELSE SendCmd(st, r.retry + 1,
                               "Projector returned error: " \o SliceFrom(buf, 7), a)
             ELSE Settle(st, a, Resolved("string", SliceFrom(buf, 7)))
        ELSE SendCmd(st, r.retry + 1, "Unexpected answer from projector", a)

\* Variant of KillResolved: the acknowledgement is compared with "ok".
KillResolvedLowerCaseAck(st, a, k) ==
    LET r == st.att[a]
        c == st.call
        buf == r.kills[k].buf
    IN  IF r.kills[k].path = "timer"
        THEN SendCmd(st, r.retry + 1, "Failed command to projector", a)
        ELSE IF Slice(buf, 0, 7) = r.pv \o c.cmd \o "="
        THEN IF ~c.query
             THEN IF Slice(buf, 7, 9) = "ok"
                  THEN Settle(st, a, Resolved("undefined", Undefined))
                  ELSE SendCmd(st, r.retry + 1,
                               "Projector returned error: " \o SliceFrom(buf, 7), a)
             ELSE Settle(st, a, Resolved("string", SliceFrom(buf, 7)))
        ELSE SendCmd(st, r.retry + 1, "Unexpected answer from projector", a)

\* Variant of KillResolved: the payload of a query is cut before the
\* carriage return.
KillResolvedTrimmed(st, a, k) ==
    LET r == st.att[a]
        c == st.call
        buf == r.kills[k].buf
    IN  IF r.kills[k].path = "timer"
        THEN SendCmd(st, r.retry + 1, "Failed command to projector", a)
        ELSE IF Slice(buf, 0, 7) = r.pv \o c.cmd \o "="
        THEN IF ~c.query
             THEN IF Slice(buf, 7, 9) = "OK"
                  THEN Settle(st, a, Resolved("undefined", Undefined))
                  ELSE SendCmd(st, r.retry + 1,
                               "Projector returned error: " \o SliceFrom(buf, 7), a)
             ELSE Settle(st, a, Resolved("string", Slice(buf, 7, -1)))
        ELSE SendCmd(st, r.retry + 1, "Unexpected answer from projector", a)

\* The callbacks of Attempt a on the promise of its k-th _killSocket call,
\* when that promise is resolved (the socket closed in time).
KillResolved(st, a, k) ==
    LET r == st.att[a]
        c == st.call
        buf == r.kills[k].buf
    IN  IF r.kills[k].path = "timer"
        THEN SendCmd(st, r.retry + 1, "Failed command to projector", a)
        ELSE IF Slice(buf, 0, 7) = r.pv \o c.cmd \o "="
        THEN IF ~c.query
             THEN IF Slice(buf, 7, 9) = "OK"
                  THEN Settle(st, a, Resolved("undefined", Undefined))
                  ELSE SendCmd(st, r.retry + 1,
                               "Projector returned error: " \o SliceFrom(buf, 7), a)
             ELSE Settle(st, a, Resolved("string", SliceFrom(buf, 7)))
        ELSE SendCmd(st, r.retry + 1, "Unexpected answer from projector", a)

\* ... and when that promise is rejected (the socket did not close in time).
KillRejected(st, a, k) ==
    LET r == st.att[a]
        c == st.call
    IN  IF r.kills[k].path = "timer"
        THEN SendCmd(st, r.retry + 1,
                     "Failed command to projector, failed to close socket, command: %1"
                         \o c.cmd \o " " \o ArgString(c), a)
        ELSE Settle(st, a, Rejected("Projector failed to close socket"))

\* The 'close' event of the socket of Attempt a: every 'close' listener still
\* attached resolves its _killSocket promise; the callbacks follow in order.
RECURSIVE CloseListeners(_, _, _)
CloseListeners(st, a, k) ==
    IF k > Len(st.att[a].kills) THEN st
    ELSE IF st.att[a].kills[k].on
    THEN CloseListeners(KillResolved([st EXCEPT !.att[a].kills[k].ended = TRUE,
                                                !.att[a].kills[k].p = "resolved"], a, k),
                        a, k + 1)
    ELSE CloseListeners(st, a, k + 1)

SocketClosed(st, a) == CloseListeners([st EXCEPT !.att[a].sock = "closed"], a, 1)

\* ------------------------------------------------------------------ actions
Init ==
    /\ call = NoCall
    /\ att = <<>>
    /\ timers = <<>>
    /\ result = Pending
    /\ caller = Pending
    /\ console = {}
    /\ opened = 0
    /\ extraKills = 0
    /\ fired = 0
    /\ session = NoSession

\* A public operation calls _sendCmd(cmd, arg): the logical command starts.
Invoke(op, cmd, query, n, label) ==
    /\ call = NoCall
    /\ Commit(SendCmd([Cur EXCEPT !.call = [op |-> op, cmd |-> cmd, query |-> query,
                                            n |-> n, label |-> label]],
                      0, Undefined, 0))

\* A public operation rejects its argument without calling _sendCmd.
Invalid(op, message) ==
    /\ call = NoCall
    /\ Commit([Cur EXCEPT !.call = [NoCall EXCEPT !.op = op],
                          !.caller = Rejected(message)])

\* new Projector(url, password, cb, port), with or without a callback.
constructor(cbs) ==
    \E cb \in cbs :
        /\ call = NoCall
        /\ Commit(ProbeQuery([Cur EXCEPT !.session.cb = cb], ProbeCommands[1]))

BadState == "toggle"

\* power(state), for the states of a given set.
power(states) ==
    \E state \in states :
        LET s == ToLowerCase(state)
        IN  CASE s = "on" -> Invoke("power", "POWR", FALSE, 1, "")
              [] s = "off" -> Invoke("power", "POWR", FALSE, 0, "")
              [] OTHER -> Invalid("power", "Invalid power command")

getPower == Invoke("getPower", "POWR", TRUE, 0, "")

getLamp == Invoke("getLamp", "LAMP", TRUE, 0, "")

getInput == Invoke("getInput", "INPT", TRUE, 0, "")

setVolume(states) ==
    \E state \in states :
        CASE state = "increase" -> Invoke("setVolume", "SVOL", FALSE, 1, "")
          [] state = "decrease" -> Invoke("setVolume", "SVOL", FALSE, 0, "")
          [] OTHER -> Invalid("setVolume", "Invalid volume instruction")

setVideoMute(states) ==
    \E state \in states :
        CASE state = "on" -> Invoke("setVideoMute", "AVMT", FALSE, 11, "")
          [] state = "off" -> Invoke("setVideoMute", "AVMT", FALSE, 10, "")
          [] OTHER -> Invalid("setVideoMute", "Invalid video mute instruction")

setAudioMute(states) ==
    \E state \in states :
        CASE state = "on" -> Invoke("setAudioMute", "AVMT", FALSE, 21, "")
          [] state = "off" -> Invoke("setAudioMute", "AVMT", FALSE, 20, "")
          [] OTHER -> Invalid("setAudioMute", "Invalid audio mute instruction")

setVideoAndAudioMute(states) ==
    \E state \in states :
        CASE state = "on" -> Invoke("setVideoAndAudioMute", "AVMT", FALSE, 31, "")
          [] state = "off" -> Invoke("setVideoAndAudioMute", "AVMT", FALSE, 30, "")
          [] OTHER -> Invalid("setVideoAndAudioMute",
                              "Invalid video and audio mute instruction")

getVideoAndAudioMute == Invoke("getVideoAndAudioMute", "AVMT", TRUE, 0, "")

getInputResolution == Invoke("getInputResolution", "IRES", TRUE, 0, "")

setFreeze(states) ==
    \E state \in states :
        CASE state = "on" -> Invoke("setFreeze", "FREZ", FALSE, 1, "")
          [] state = "off" -> Invoke("setFreeze", "FREZ", FALSE, 0, "")
          [] OTHER -> Invalid("setFreeze", "Invalid freeze instruction")

getFreeze == Invoke("getFreeze", "FREZ", TRUE, 0, "")

getAvailableInputList == Invoke("getAvailableInputList", "INST", TRUE, 0, "")

setInputByDirectNumber(numbers) ==
    \E number \in numbers :
        Invoke("setInputByDirectNumber", "INPT", FALSE, number, NumberToString(number))

\* input(type, number): type is a source name or (as its decimal text) a
\* number; number 0 stands for an omitted number (!number holds of both).
InputTypes == <<"RGB", "Video", "Digital", "Storage", "Network">>
input(types, numbers) ==
    \E type \in types, number \in numbers :
        LET num == IF number = 0 THEN 1 ELSE number
            inputStr ==
                IF IsDigit(Slice(type, 0, 1)) THEN type
                ELSE (IF \E i \in 1..5 : InputTypes[i] = type
                      THEN NumberToString(CHOOSE i \in 1..5 : InputTypes[i] = type)
                      ELSE "3") \o NumberToString(num)
        IN  Invoke("input", "INPT", FALSE, ParseInt(inputStr),
                   type \o " " \o NumberToString(num))

\* ---- the device and the network
Greetings == {"PJLINK 1 12345678" \o CR, "PJLINK 0" \o CR}

ErrorTokens == {"ERR2"}

\* A query result of the device for cmd.
Payload(cmd) ==
    CASE cmd = "POWR" -> "1"
      [] cmd = "LAMP" -> "1234 1"
      [] cmd = "INPT" -> "31"
      [] cmd = "AVMT" -> "31"
      [] cmd = "IRES" -> "1920x1080"
      [] cmd = "FREZ" -> "1"
      [] cmd = "NAME" -> "Hall"
      [] cmd = "INF1" -> "Panasonic"
      [] cmd = "INF2" -> "PT-VW"
      [] cmd = "INFO" -> "v1"
      [] cmd = "CLSS" -> "2"
      [] OTHER -> "11 12 31"

\* The class of a command on the device's side (PJLink class 2 commands).
DeviceVersion(cmd) == IF cmd \in {"SVOL", "IRES", "FREZ"} THEN "%2" ELSE "%1"
OtherVersion(tag) == IF tag = "%1" THEN "%2" ELSE "%1"

\* The chunks the device may send while command c is exchanged: greetings,
\* responses to c (acknowledgement, error token, query result) and a response
\* under the other version tag.
Responses(c) ==
    LET head == DeviceVersion(c.cmd) \o c.cmd \o "="
    IN  {head \o v \o CR : v \in ErrorTokens \cup {IF c.query THEN Payload(c.cmd) ELSE "OK"}}
          \cup {OtherVersion(DeviceVersion(c.cmd)) \o c.cmd \o "=OK" \o CR}

DeviceChunks(c) == Greetings \cup Responses(c)

\* socket.write(line): nothing is written once socket.end() was called.
Write(st, a, line) ==
    IF st.att[a].ended THEN st ELSE [st EXCEPT !.att[a].sent = Append(@, line)]

\* socket.on('data', buf => ...)
OnData(st, a, buf) ==
    IF Slice(buf, 0, 9) = "PJLINK 1 "
    THEN Write(st, a, AuthLine(buf, st.att[a].pv, st.call))
    ELSE IF Slice(buf, 0, 8) = "PJLINK 0"
    THEN Write(st, a, PlainLine(st.att[a].pv, st.call))
    ELSE KillSocket([st EXCEPT !.att[a].ending = TRUE], a, "data", buf)

\* The device holds one session at a time: it sends data on the oldest open
\* Connection only.
Serves(a) == \A b \in 1..(a - 1) : att[b].sock # "open"

IsGreeting(buf) == Slice(buf, 0, 9) = "PJLINK 1 " \/ Slice(buf, 0, 8) = "PJLINK 0"

\* The Attempts, by retry counter, on which Spec lets _killSocket be called
\* again for a socket that is already being closed: the last two.
LateRetries == {maxRetries - 1, maxRetries}

\* The 'data' event of the socket of Attempt a, with chunk buf.  `again` is
\* the set of retry counters of the Attempts on which a chunk may call
\* _killSocket for a socket that is already being closed.
Data(a, buf, again) ==
    LET extra == ~IsGreeting(buf) /\ att[a].kills # <<>>
    IN  /\ att[a].sock = "open"
        /\ att[a].listeners
        /\ ~att[a].failed
        /\ att[a].rx < MaxChunks
        /\ Serves(a)
        /\ extra => /\ extraKills < MaxExtraKills
                    /\ att[a].retry \in again
        /\ Commit(OnData([Cur EXCEPT !.att[a].rx = @ + 1,
                                     !.extraKills = IF extra THEN @ + 1 ELSE @],
                         a, buf))

\* The socket closes: the device closed its side, after or before socket.end().
SocketClose(a) ==
    /\ att[a].sock = "open"
    /\ Commit(SocketClosed(Cur, a))

SocketErrorText == "{\"code\":\"ECONNRESET\"}"

\* Variant of OnError: the handler closes the socket as the timer does.
OnErrorClosing(st, a) ==
    KillSocket([st EXCEPT !.console = @ \cup {"Projector socket error: " \o SocketErrorText},
                          !.att[a].failed = TRUE],
               a, "timer", NoBuf)

\* socket.on('error', err => console.error(...)); `failed` records that the
\* socket of Attempt a emitted 'error'.
OnError(st, a) ==
    [st EXCEPT !.console = @ \cup {"Projector socket error: " \o SocketErrorText},
               !.att[a].failed = TRUE]

\* The 'error' event of the socket of Attempt a, once per socket; no data
\* arrives after it, and the 'close' event follows as an event of its own.
SocketError(a) ==
    /\ att[a].sock = "open"
    /\ att[a].listeners
    /\ ~att[a].failed
    /\ Commit(OnError(Cur, a))

\* ---- timers
\* Timers of equal delay fire in creation order, and a timer fires before any
\* longer timer created after it (200 ms against 2000 ms).
CanFire(ts, i) == \A j \in 1..(i - 1) : ts[j].delay > ts[i].delay

Remove(ts, i) == SubSeq(ts, 1, i - 1) \o SubSeq(ts, i + 1, Len(ts))

\* Variant of OnAttemptTimer: the successor is started without closing the
\* socket.
OnAttemptTimerNoClose(st, a) ==
    IF ~st.att[a].ending
    THEN SendCmd(st, st.att[a].retry + 1, "Failed command to projector", a)
    ELSE st

\* Variant of OnAttemptTimer: the callback does not look at `ending`.
OnAttemptTimerUnguarded(st, a) == KillSocket(st, a, "timer", NoBuf)

\* The per-Attempt timer of _sendCmd (2000 ms).
OnAttemptTimer(st, a) ==
    IF ~st.att[a].ending THEN KillSocket(st, a, "timer", NoBuf) ELSE st

AttemptTimer(i) ==
    LET st == Cur
    IN  /\ i \in 1..Len(st.timers)
        /\ st.timers[i].k = 0
        /\ CanFire(st.timers, i)
        /\ Commit(OnAttemptTimer([st EXCEPT !.timers = Remove(@, i),
                                            !.fired = IF fired = 1 THEN 2 ELSE 1],
                                  st.timers[i].a))

\* socket.removeAllListeners(), for the 'close' listeners of _killSocket.
RECURSIVE ListenersOff(_, _)
ListenersOff(kills, k) ==
    IF k = 0 THEN <<>>
    ELSE Append(ListenersOff(kills, k - 1), [kills[k] EXCEPT !.on = FALSE])

\* Variant of OnKillTimer: the socket is destroyed but the promise is left
\* unsettled.
OnKillTimerNoReject(st, a, k) ==
    LET off == [st EXCEPT !.att[a].listeners = FALSE,
                          !.att[a].kills = ListenersOff(@, Len(@))]
    IN  IF ~st.att[a].kills[k].ended
        THEN [off EXCEPT !.att[a].destroyed = @ + 1,
                         !.att[a].sock = "closed"]
        ELSE off

\* The timer of _killSocket (200 ms).
OnKillTimer(st, a, k) ==
    LET off == [st EXCEPT !.att[a].listeners = FALSE,
                          !.att[a].kills = ListenersOff(@, Len(@))]
    IN  IF ~st.att[a].kills[k].ended
        THEN KillRejected([off EXCEPT !.att[a].destroyed = @ + 1,
                                      !.att[a].sock = "closed",
                                      !.att[a].kills[k].p = "rejected"], a, k)
        ELSE off

KillTimer(i) ==
    LET st == Cur
    IN  /\ i \in 1..Len(st.timers)
        /\ st.timers[i].k > 0
        /\ CanFire(st.timers, i)
        /\ Commit(OnKillTimer([st EXCEPT !.timers = Remove(@, i),
                                         !.fired = IF fired = 1 THEN 2 ELSE 1],
                               st.timers[i].a, st.timers[i].k))

\* ---- specifications
\* The command exchange, for a set command (power) and a query (getLamp),
\* against a device that sends any chunks at any time and closes when it likes.
Next ==
    \/ power({"on", BadState})
    \/ getLamp
    \/ \E a \in 1..Len(att) : \E buf \in DeviceChunks(call) : Data(a, buf, LateRetries)
    \/ \E a \in 1..Len(att) : SocketClose(a)
    \/ \E i \in 1..Len(timers) : AttemptTimer(i)
    \/ \E i \in 1..Len(timers) : KillTimer(i)

Spec == Init /\ [][Next]_vars

\* The same exchange over a network on which a Connection can also fail.
FairNext ==
    \/ Next
    \/ \E a \in 1..Len(att) : SocketError(a)

\* Some setTimeout callback is scheduled that can still do something.
TimerDue == \E i \in 1..Len(timers) : ~Idle(att, timers[i])

\* The event loop runs the callbacks of scheduled timers: while some timer is
\* due, a timer callback eventually runs (the steps that set `fired` are
\* exactly AttemptTimer and KillTimer, and each of them changes it).
FairSpec ==
    /\ Init
    /\ [][FairNext]_vars
    /\ WF_fired(TimerDue /\ fired' = IF fired = 1 THEN 2 ELSE 1)

\* Every public operation, against a device that sends at most one chunk that
\* is not a greeting per Connection and none after the per-Attempt timer has
\* fired, over a network without transport errors.
ApiNext ==
    \/ power({"on", "off", "ON", BadState})
    \/ getPower
    \/ getLamp
    \/ getInput
    \/ setVolume({"increase", "decrease", BadState})
    \/ setVideoMute({"on", "off", BadState})
    \/ setAudioMute({"on", "off", BadState})
    \/ setVideoAndAudioMute({"on", "off", BadState})
    \/ getVideoAndAudioMute
    \/ getInputResolution
    \/ setFreeze({"on", "off", BadState})
    \/ getFreeze
    \/ getAvailableInputList
    \/ setInputByDirectNumber({31})
    \/ input({"Digital", "32"}, {0})
    \/ \E a \in 1..Len(att) : \E buf \in DeviceChunks(call) : Data(a, buf, {})
    \/ \E a \in 1..Len(att) : SocketClose(a)
    \/ \E i \in 1..Len(timers) : AttemptTimer(i)
    \/ \E i \in 1..Len(timers) : KillTimer(i)

ApiSpec == Init /\ [][ApiNext]_vars

\* A device that answers every request with the error token ERR2: on each
\* Connection a greeting, then, once the request is written, the response
\* <tag><cmd>=ERR2, within the response window; it closes its side only after
\* the client ended the Connection.
RejectingNext ==
    \/ power({"on", "off"})
    \/ setFreeze({"on"})
    \/ \E a \in 1..Len(att) : \E buf \in Greetings :
          att[a].sent = <<>> /\ Data(a, buf, {})
    \/ \E a \in 1..Len(att) :
          /\ att[a].sent # <<>>
          /\ att[a].kills = <<>>
          /\ Data(a, DeviceVersion(call.cmd) \o call.cmd \o "=ERR2" \o CR, {})
    \/ \E a \in 1..Len(att) : att[a].ended /\ SocketClose(a)
    \/ \E i \in 1..Len(timers) : AttemptTimer(i) /\ att[Cur.timers[i].a].ending
    \/ \E i \in 1..Len(timers) : KillTimer(i)

RejectingSpec == Init /\ [][RejectingNext]_vars

\* The initial Attempt of a set command, receiving any chunks at any time, two
\* that are not greetings included, up to the start of its successors.
AckNext ==
    \/ power({"on", "off"})
    \/ setFreeze({"on"})
    \/ \E a \in 1..Len(att) : \E buf \in DeviceChunks(call) :
          att[a].retry = 0 /\ Data(a, buf, {0})
    \/ \E a \in 1..Len(att) : att[a].retry = 0 /\ SocketClose(a)
    \/ \E i \in 1..Len(timers) : AttemptTimer(i) /\ att[Cur.timers[i].a].retry = 0
    \/ \E i \in 1..Len(timers) : KillTimer(i) /\ att[Cur.timers[i].a].retry = 0

AckSpec == Init /\ [][AckNext]_vars

\* A device that accepts Connections and never sends any data.
SilentNext ==
    \/ power({"on", "off"})
    \/ getLamp
    \/ setFreeze({"on"})
    \/ \E a \in 1..Len(att) : SocketClose(a)
    \/ \E i \in 1..Len(timers) : AttemptTimer(i)
    \/ \E i \in 1..Len(timers) : KillTimer(i)

SilentSpec == Init /\ [][SilentNext]_vars

\* A set command and a query over a network on which a Connection can fail at
\* any time, against a device that sends at most one chunk that is not a
\* greeting per Connection.
ErrorNext ==
    \/ power({"on"})
    \/ getLamp
    \/ \E a \in 1..Len(att) : \E buf \in DeviceChunks(call) : Data(a, buf, {})
    \/ \E a \in 1..Len(att) : SocketError(a)
    \/ \E a \in 1..Len(att) : SocketClose(a)
    \/ \E i \in 1..Len(timers) : AttemptTimer(i)
    \/ \E i \in 1..Len(timers) : KillTimer(i)

ErrorSpec == Init /\ [][ErrorNext]_vars

\* The constructor's probe, against a device that sends any chunks, at most one
\* that is not a greeting per Connection, and closes when it likes.
ProbeNext ==
    \/ constructor(BOOLEAN)
    \/ \E a \in 1..Len(att) : \E buf \in DeviceChunks(call) : Data(a, buf, {})
    \/ \E a \in 1..Len(att) : SocketClose(a)
    \/ \E i \in 1..Len(timers) : AttemptTimer(i)
    \/ \E i \in 1..Len(timers) : KillTimer(i)

ProbeSpec == Init /\ [][ProbeNext]_vars

\* ---- properties of the command exchange

\* C1 (as stated): a set command that the device answers with ERR2 on every
\* Attempt is rejected after exactly 6 Attempts (never fewer, never more), and
\* the rejection reason contains "ERR2".
C1_RejectedAfterSixAttempts ==
    result.state # "pending" =>
        /\ result.state = "rejected"
        /\ opened = maxRetries + 1
        /\ \E i \in 1..Len(result.value) : Slice(result.value, i - 1, i + 3) = "ERR2"

\* C2 (as stated): for a set command, when the response chunk of the initial
\* Attempt begins with <tag><cmd>=OK, the command resolves to success and no
\* further Attempt is started, whatever the outcome of the close that follows.
C2_AckWhateverClose ==
    \A a \in 1..Len(att) :
        (/\ ~call.query
         /\ att[a].retry = 0
         /\ att[a].kills # <<>>
         /\ att[a].kills[1].path = "data"
         /\ Slice(att[a].kills[1].buf, 0, 9) = att[a].pv \o call.cmd \o "=OK"
         /\ att[a].kills[1].p # "pending")
        => /\ result = Resolved("undefined", Undefined)
           /\ opened = 1

\* C2 (amended): for a set command, when the initial Attempt closes its socket
\* once only, for a chunk that begins with <tag><cmd>=OK, and that close is
\* confirmed within the grace window, the command resolves to success in that
\* step with no further Attempt, and none is started afterwards.
C2_AckWithConfirmedClose ==
    /\ [](\A a \in 1..Len(att) :
            (/\ ~call.query
             /\ att[a].retry = 0
             /\ Len(att[a].kills) = 1
             /\ att[a].kills[1].path = "data"
             /\ Slice(att[a].kills[1].buf, 0, 9) = att[a].pv \o call.cmd \o "=OK"
             /\ att[a].kills[1].p = "resolved")
            => /\ result = Resolved("undefined", Undefined)
               /\ opened = 1)
    /\ [][(result = Resolved("undefined", Undefined) /\ opened = 1)
            => opened' = 1]_vars

\* C2 witness: the initial Attempt of a set command received <tag><cmd>=OK,
\* its close was confirmed, and the command is resolved.
C2_Witness ==
    /\ ~call.query
    /\ Len(att) = 1
    /\ Len(att[1].kills) = 1
    /\ att[1].kills[1].path = "data"
    /\ Slice(att[1].kills[1].buf, 0, 9) = att[1].pv \o call.cmd \o "=OK"
    /\ att[1].kills[1].p = "resolved"
    /\ result.state = "resolved"

C4_CloseFailureIsRetried ==
    \A a \in 1..Len(att) : \A k \in 1..Len(att[a].kills) :
        (/\ att[a].kills[k].path = "data"
         /\ att[a].kills[k].p = "rejected"
         /\ att[a].retry < maxRetries)
        => \E b \in 1..Len(att) :
              /\ att[b].parent = a
              /\ att[b].retry = att[a].retry + 1

\* C5 (as stated): when a command issued through a public operation ends in
\* retry exhaustion, the promise returned to the caller is rejected.
C5_ExhaustionRejectsCaller ==
    (/\ result.state = "rejected"
     /\ result.value # "Projector failed to close socket")
    => caller.state = "rejected"

\* C6: against a device that accepts Connections and never sends data, every
\* Attempt ends through its per-Attempt timer, every successor carries a timer
\* error, and the command is rejected after exactly 6 Attempts.
C6_SilentDeviceSixTimeouts ==
    LET timerErrors ==
            {"Failed command to projector",
             "Failed command to projector, failed to close socket, command: %1"
                 \o call.cmd \o " " \o ArgString(call)}
    IN  /\ \A a \in 1..Len(att) :
              /\ \A k \in 1..Len(att[a].kills) :
                    att[a].kills[k].path \in {"timer", "settled"}
              /\ att[a].retry \in 0..maxRetries
              /\ att[a].retry > 0 => att[a].err \in timerErrors \cup {Undefined}
        /\ opened <= maxRetries + 1
        /\ result.state # "pending" =>
              /\ result.state = "rejected"
              /\ result.value \in timerErrors
              /\ opened = maxRetries + 1

\* C6 witness: the command against the silent device is rejected after the
\* sixth Attempt timed out.
C6_Witness ==
    /\ result.state = "rejected"
    /\ opened = maxRetries + 1
    /\ \A a \in 1..Len(att) : att[a].sent = <<>>

\* C7 (as stated): a query answered with the expected prefix and a device error
\* token is retried; the command does not resolve with the token as payload.
C7_ErrorTokenNotPayload ==
    (call.query /\ result.state = "resolved")
    => Slice(result.value, 0, 4) \notin {"ERR1", "ERR2", "ERR3", "ERR4"}

\* C8: every logical command (a call that reached _sendCmd) eventually settles,
\* whatever the device and the network do, provided scheduled timers fire.
C8_EveryCommandSettles ==
    (opened > 0) ~> (result.state # "pending")

\* C8 witness: a command is settled after a close that was never confirmed.
C8_Witness ==
    /\ opened > 0
    /\ result = Rejected("Projector failed to close socket")
    /\ \E a \in 1..Len(att) : att[a].destroyed > 0

\* C9: the version tag is "%2" exactly for SVOL, IRES and FREZ and "%1" for
\* every other command; every Attempt of a command expects that tag and every
\* request line written carries it.
C9_VersionTag ==
    LET tag == IF call.cmd \in {"SVOL", "IRES", "FREZ"} THEN "%2" ELSE "%1"
    IN  \A a \in 1..Len(att) :
            /\ att[a].pv = tag
            /\ \A i \in 1..Len(att[a].sent) :
                  LET line == att[a].sent[i]
                      at == IndexOf(line, "%")
                  IN  /\ at >= 0
                      /\ Slice(line, at, at + 2) = tag
                      /\ Slice(line, at + 2, at + 6) = call.cmd

\* C9 witness: a retry of a command of the second protocol version has written
\* its request line.
C9_Witness ==
    \E a \in 1..Len(att) :
        /\ att[a].retry > 0
        /\ att[a].sent # <<>>
        /\ call.cmd \in {"SVOL", "IRES", "FREZ"}

\* C10 (as stated): a Connection whose close is not confirmed within the grace
\* window is force-destroyed exactly once, for any number of chunks and any
\* interleaving with the per-Attempt timer.
C10_DestroyedExactlyOnce ==
    \A a \in 1..Len(att) :
        /\ att[a].destroyed <= 1
        /\ \A k \in 1..Len(att[a].kills) :
              att[a].kills[k].p = "rejected" => att[a].destroyed = 1

\* C11 (as stated): over any sequence of device and timer events, one logical
\* command opens at most six Connections in total.
C11_AtMostSixConnections ==
    opened <= maxRetries + 1

\* The error a failed _killSocket call of Attempt r hands to the successor it
\* requests.
CarriedError(r, kill) ==
    IF kill.path = "timer"
    THEN IF kill.p = "resolved" THEN "Failed command to projector"
         ELSE "Failed command to projector, failed to close socket, command: %1"
                  \o call.cmd \o " " \o ArgString(call)
    ELSE IF Slice(kill.buf, 0, 7) = r.pv \o call.cmd \o "="
    THEN "Projector returned error: " \o SliceFrom(kill.buf, 7)
    ELSE "Unexpected answer from projector"

\* The k-th _killSocket call of Attempt r has settled so that its callback
\* requests a successor: on the timeout path always, on the response path when
\* the close was confirmed and the chunk is neither an acknowledgement nor a
\* query result.
RequestsSuccessor(r, kill) ==
    \/ kill.path = "timer" /\ kill.p \in {"resolved", "rejected"}
    \/ /\ kill.path = "data"
       /\ kill.p = "resolved"
       /\ ~(/\ Slice(kill.buf, 0, 7) = r.pv \o call.cmd \o "="
            /\ call.query \/ Slice(kill.buf, 7, 9) = "OK")

\* C12: no Connection is opened by an Attempt with a retry counter above 5;
\* an Attempt started by another Attempt has its parent's retry counter plus
\* one (the initial Attempt has 0); and a request for an Attempt with retry 6
\* (a failure of an Attempt with retry 5) opens no Connection and rejects with
\* the error carried by that failure.
C12_RetryCounter ==
    /\ [](\A a \in 1..Len(att) :
            /\ att[a].retry \in 0..maxRetries
            /\ IF att[a].parent = 0 THEN att[a].retry = 0
               ELSE att[a].retry = att[att[a].parent].retry + 1)
    /\ [][\A a \in 1..Len(att) :
            LET new == {k \in 1..Len(att[a].kills) :
                           /\ att[a].kills[k].p = "pending"
                           /\ att'[a].kills[k].p \in {"resolved", "rejected"}}
                first == CHOOSE k \in new : \A j \in new : k <= j
            IN  (/\ att[a].retry = maxRetries
                 /\ new # {}
                 /\ RequestsSuccessor(att'[a], att'[a].kills[first]))
                => /\ opened' = opened
                   /\ Len(att') = Len(att)
                   /\ att[a].p = "pending" => att'[a].p = "rejected"
                   /\ (result.state = "pending" /\ result'.state # "pending")
                         => result' = Rejected(CarriedError(att'[a], att'[a].kills[first]))
          ]_vars

\* C12 witness: an Attempt with retry 5 failed with its close confirmed, and
\* the command is rejected with the error of that failure.
C12_Witness ==
    \E a \in 1..Len(att) : \E k \in 1..Len(att[a].kills) :
        /\ att[a].retry = maxRetries
        /\ att[a].parent > 0
        /\ att[a].kills[k].p = "resolved"
        /\ RequestsSuccessor(att[a], att[a].kills[k])
        /\ att[a].p = "rejected"
        /\ result = Rejected(CarriedError(att[a], att[a].kills[k]))

\* C13: when an Attempt starts a successor, the parent's Connection is already
\* closed (its 'close' event was seen, or it was destroyed) at the moment the
\* successor's Connection is opened: on the response path, on the timeout
\* path, and when a late response and the timer both close the Connection.
C13_ParentClosedFirst ==
    /\ [](\A b \in 1..Len(att) :
            att[b].parent # 0 => att[att[b].parent].sock = "closed")
    /\ [][\A b \in (Len(att) + 1)..Len(att') :
            att'[b].parent # 0 =>
                LET r == att'[att'[b].parent]
                IN  /\ r.sock = "closed"
                    /\ \E k \in 1..Len(r.kills) :
                          \/ r.kills[k].p = "resolved"
                          \/ r.kills[k].p = "rejected" /\ r.destroyed > 0]_vars

\* C13 witness: a successor was started by an Attempt whose Connection both
\* the per-Attempt timer and a late response closed.
C13_Witness ==
    \E b \in 1..Len(att) :
        /\ att[b].parent # 0
        /\ att[b].sock = "open"
        /\ LET r == att[att[b].parent]
           IN  /\ Len(r.kills) = 2
               /\ r.kills[1].path = "timer"
               /\ r.kills[2].path = "data"
               /\ r.sock = "closed"

\* C14: when an Attempt has received a chunk that is not a greeting (`ending`
\* is set) before its per-Attempt timer fires, the timer callback does
\* nothing: the Connection is left as it is, no Attempt is started and the
\* logical command is not settled; so the timeout path never closes a socket
\* that the response path has closed.
C14_LateTimerHasNoEffect ==
    /\ [](\A a \in 1..Len(att) : \A k \in 2..Len(att[a].kills) :
            att[a].kills[k].path # "timer")
    /\ [][\A i \in 1..Len(Cur.timers) :
            (/\ Cur.timers[i].k = 0
             /\ Cur.att[Cur.timers[i].a].ending
             /\ fired' # 0
             /\ timers' = Remove(Cur.timers, i))
            => /\ att' = Cur.att
               /\ opened' = opened
               /\ result' = result
               /\ caller' = caller
               /\ console' = console]_vars

\* C14 witness: the per-Attempt timer has just fired on an Attempt that is
\* closing its Connection for a response it received.
C14_Witness ==
    \E a \in 1..Len(att) :
        /\ att[a].sock = "open"
        /\ att[a].ending
        /\ Len(att[a].kills) = 1
        /\ att[a].kills[1].path = "data"
        /\ att[a].kills[1].p = "pending"
        /\ ~HasTimer(timers, a, 0)
        /\ fired # 0

\* C15: when the logical command is rejected because the retries are
\* exhausted (any rejection but that of an unconfirmed close on the response
\* path), the reason is the error produced by the failure, in that step, of an
\* Attempt with retry 5, not the error that Attempt was started with: a
\* timeout of the sixth Attempt surfaces "Failed command to projector".
C15_LastFailureSurfaces ==
    [][(/\ result.state = "pending"
        /\ result'.state = "rejected"
        /\ result'.value # "Projector failed to close socket")
       => \E a \in 1..Len(att) :
             LET new == {k \in 1..Len(att[a].kills) :
                            /\ att[a].kills[k].p = "pending"
                            /\ att'[a].kills[k].p \in {"resolved", "rejected"}}
                 first == CHOOSE k \in new : \A j \in new : k <= j
             IN  /\ att[a].retry = maxRetries
                 /\ new # {}
                 /\ RequestsSuccessor(att'[a], att'[a].kills[first])
                 /\ result'.value = CarriedError(att'[a], att'[a].kills[first])
                 /\ (att'[a].kills[first].path = "timer"
                        /\ att'[a].kills[first].p = "resolved")
                       => result'.value = "Failed command to projector"]_vars

\* C15 witness: the sixth Attempt, started with the error of a device token,
\* timed out, and the command is rejected with the timeout error.
C15_Witness ==
    \E a \in 1..Len(att) :
        /\ att[a].retry = maxRetries
        /\ att[a].err = "Projector returned error: ERR2" \o CR
        /\ Len(att[a].kills) = 1
        /\ att[a].kills[1].path = "timer"
        /\ att[a].kills[1].p = "resolved"
        /\ result = Rejected("Failed command to projector")

\* C16: the 'error' event of an Attempt's socket changes nothing in the
\* exchange but the log: the command is not settled, no Attempt is started,
\* retry counter, `ending` and the socket are as before, no timer is added or
\* removed.  An Attempt whose socket failed before any response ends only
\* through its per-Attempt timer: while that timer is pending the Attempt has
\* closed nothing, has started no successor and its promise is pending.
C16_ErrorEventOnlyLogs ==
    /\ [](\A a \in 1..Len(att) :
            (att[a].failed /\ ~att[a].ending /\ HasTimer(timers, a, 0))
            => /\ att[a].kills = <<>>
               /\ att[a].destroyed = 0
               /\ att[a].p = "pending"
               /\ \A b \in 1..Len(att) : att[b].parent # a)
    /\ [][\A a \in 1..Len(att) :
            (~att[a].failed /\ att'[a].failed)
            => /\ att' = [Cur.att EXCEPT ![a].failed = TRUE]
               /\ att'[a].sock = "open"
               /\ att'[a].retry = att[a].retry
               /\ att'[a].ending = att[a].ending
               /\ timers' = Cur.timers
               /\ opened' = opened
               /\ result' = result
               /\ caller' = caller
               /\ console' = console \cup {"Projector socket error: " \o SocketErrorText}
          ]_vars

\* C16 witness: the socket of an Attempt failed before any response and has
\* closed; the Attempt waits for its per-Attempt timer and the command is
\* pending.
C16_Witness ==
    \E a \in 1..Len(att) :
        /\ att[a].failed
        /\ att[a].sock = "closed"
        /\ ~att[a].ending
        /\ att[a].kills = <<>>
        /\ HasTimer(timers, a, 0)
        /\ "Projector socket error: " \o SocketErrorText \in console
        /\ result.state = "pending"

\* The field of the Projector that the k-th probe query fills.
FieldOf(s, k) ==
    CASE k = 1 -> s.name
      [] k = 2 -> s.manufacturer
      [] k = 3 -> s.model
      [] k = 4 -> s.info
      [] OTHER -> s.class
Field(k) == FieldOf(session, k)

\* C17 (as stated), its last part: if any probe query of the constructor is
\* rejected, the identity fields (_name, _manufacturer, _model, _info, _class)
\* are left unset.
C17_FailedProbeLeavesFieldsUnset ==
    result.state = "rejected" => \A k \in 1..Len(ProbeCommands) : Field(k) = Null

\* C17 (amended): NAME, INF1, INF2, INFO, CLSS are issued in that order, each
\* one when the one before it has resolved and stored its result; the callback
\* runs at most once and only when all five have resolved; after a rejected
\* query no query is issued, no Connection is opened, the callback does not
\* run and _initialized stays false; the rejected query leaves unset its own
\* field and those of the queries after it, while the fields of the queries
\* that resolved before it keep their values.
C17_FailedProbeKeepsEarlierFields ==
    /\ [](LET n == Len(session.issued)
          IN  /\ n <= Len(ProbeCommands)
              /\ session.issued = SubSeq(ProbeCommands, 1, n)
              /\ n > 0 => call.cmd = ProbeCommands[n]
              /\ \A k \in 1..(n - 1) : Field(k) # Null
              /\ \A k \in (n + 1)..Len(ProbeCommands) : Field(k) = Null
              /\ session.ready <= 1
              /\ session.ready = 1 => session.cb /\ session.initialized
              /\ session.initialized <=>
                    /\ n = Len(ProbeCommands)
                    /\ result.state = "resolved"
              /\ session.initialized => \A k \in 1..Len(ProbeCommands) : Field(k) # Null
              /\ result.state = "rejected" =>
                    /\ session.ready = 0
                    /\ ~session.initialized
                    /\ Field(n) = Null
                    /\ \E m \in console :
                          Slice(m, 0, 31) = "Projector initialization error:")
    /\ [][/\ Len(session.issued') > Len(session.issued) =>
                /\ Len(session.issued') = Len(session.issued) + 1
                /\ session.issued # <<>> =>
                      /\ result.state = "pending"
                      /\ \E v \in {Payload(call.cmd), "ERR2"} :
                            FieldOf(session', Len(session.issued)) = v \o CR
          /\ result.state = "rejected" =>
                /\ session' = session
                /\ result' = result
                /\ opened' = opened
                /\ Len(att') = Len(att)]_vars
    /\ [](result.state = "rejected" =>
            /\ \A k \in 1..(Len(session.issued) - 1) : Field(k) # Null
            /\ \A k \in Len(session.issued)..Len(ProbeCommands) : Field(k) = Null)

\* C17 witness: the third probe query was rejected after the first two
\* resolved; the callback has not run.
C17_Witness ==
    /\ session.issued = <<"NAME", "INF1", "INF2">>
    /\ result.state = "rejected"
    /\ session.name = "Hall" \o CR
    /\ session.manufacturer = "Panasonic" \o CR
    /\ session.model = Null
    /\ session.cb
    /\ session.ready = 0

\* C18 (as stated): each Attempt starts at most one successor Attempt, for any
\* number of chunks delivered on its Connection and any interleaving of a late
\* chunk with its per-Attempt timer.
C18_AtMostOneSuccessor ==
    \A a \in 1..Len(att) :
        Cardinality({b \in 1..Len(att) : att[b].parent = a}) <= 1

\* C19 (as stated): once the logical command has settled, no Connection of
\* that command is open or is opened, and no request line is written for it.
C19_NothingAfterSettlement ==
    /\ [](result.state # "pending" => \A a \in 1..Len(att) : att[a].sock # "open")
    /\ [][result.state # "pending" =>
            /\ opened' = opened
            /\ \A a \in 1..Len(att) : Len(att'[a].sent) <= Len(att[a].sent)]_vars

\* C20 (as stated): the logical command resolves (to success or to a payload)
\* only from an Attempt on whose Connection the request line was written
\* before the resolving chunk was received; a first inbound chunk that is not
\* a greeting never makes the command resolve without the request sent.
C20_ResolvesOnlyAfterRequest ==
    [][(result.state = "pending" /\ result'.state = "resolved") =>
          \E a \in 1..Len(att) : \E k \in 1..Len(att[a].kills) :
              /\ att[a].kills[k].p = "pending"
              /\ att'[a].kills[k].p = "resolved"
              /\ att'[a].kills[k].path = "data"
              /\ att'[a].sent # <<>>]_vars

\* C20 (amended): the logical command resolves only from an Attempt whose
\* Connection delivered a chunk that is not a greeting and begins with
\* <tag><cmd>= (followed by OK for a set command), once the close of that
\* Connection is confirmed.  Request lines are written only in reply to
\* greetings, one per greeting; whether one was written is not looked at: an
\* Attempt whose chunks were all no greetings has written nothing and still
\* resolves the command.
C20_ResolvesOnResponseChunk ==
    [][(result.state = "pending" /\ result'.state = "resolved") =>
          \E a \in 1..Len(att) : \E k \in 1..Len(att[a].kills) :
              LET r == att'[a]
                  kill == r.kills[k]
                  chunks == Cardinality({j \in 1..Len(r.kills) : r.kills[j].path = "data"})
                  line == r.pv \o call.cmd \o " " \o ArgString(call) \o CR
              IN  /\ att[a].kills[k].p = "pending"
                  /\ kill.p = "resolved"
                  /\ kill.path = "data"
                  /\ Slice(kill.buf, 0, 7) = r.pv \o call.cmd \o "="
                  /\ call.query \/ Slice(kill.buf, 7, 9) = "OK"
                  /\ r.sock = "closed"
                  /\ Len(r.sent) + chunks <= r.rx
                  /\ r.rx = chunks => r.sent = <<>>
                  /\ \A i \in 1..Len(r.sent) :
                        r.sent[i] \in {line, Md5Hex("12345678" \o password) \o line}]_vars

\* C20 witness: the command is resolved from an Attempt whose only chunk was
\* a response; no request line was written on its Connection.
C20_Witness ==
    /\ result.state = "resolved"
    /\ \E a \in 1..Len(att) :
          /\ att[a].rx = 1
          /\ att[a].sent = <<>>
          /\ Len(att[a].kills) = 1
          /\ att[a].kills[1].path = "data"
          /\ att[a].kills[1].p = "resolved"
          /\ att[a].p = "resolved"

====
